---- MODULE Spec2Model ----
(***************************************************************************)
(* The recursive-descent parser of the turtle language (src/Parser.cpp)    *)
(* as a state machine.  The C++ call stack is the sequence `stack` of      *)
(* pending steps (the head is the step that runs next), the locals that    *)
(* hold sub-trees are the operand stack `vals`, and the Scanner is a lazy  *)
(* source of tokens: either a fixed program or any stream over an          *)
(* alphabet, ended by EOT.                                                 *)
(***************************************************************************)
EXTENDS Integers, Sequences, FiniteSets, TLC

VARIABLES lookahead_, attribute_, lineno_, AST_, scanner_, scanned,
          stack, vals, exc, error

vars == <<lookahead_, attribute_, lineno_, AST_, scanner_, scanned,
          stack, vals, exc, error>>

parserState == <<lookahead_, attribute_, lineno_, scanned>>

----------------------------------------------------------------------------
(* Bounds of the token streams the Scanner may produce.                    *)

MaxArith == 7
MaxBool == 10
MaxCtrl == 14
MaxLayout == 1

----------------------------------------------------------------------------
(* Tokens and their attributes.                                            *)

Lex(t, s, f) == [tok |-> t, s |-> s, f |-> f]
Kw(t) == Lex(t, "", 0)
Id(n) == Lex("IDENT", n, 0)
Real(v) == Lex("REAL", "", v)

CmpOps == {"EQ", "NE", "LT", "GT", "GE", "LE"}
BlockFirst == {"WHILE", "IF", "IDENT", "HOME", "PENUP", "PENDOWN", "FORWARD",
               "LEFT", "RIGHT", "PUSHSTATE", "POPSTATE"}

tokenToString(t) ==
  CASE t = "IDENT" -> "identifier"
    [] t = "REAL" -> "real"
    [] t = "ASSIGN" -> ":="
    [] t = "EOT" -> "end of text"
    [] OTHER -> t

----------------------------------------------------------------------------
(* AST nodes.                                                              *)

Null == [kind |-> "Null"]
ConstExpr(v) == [kind |-> "Const", val |-> v]
VarExpr(n) == [kind |-> "Var", name |-> n]
NegExpr(e) == [kind |-> "Neg", e |-> e]
NotExpr(e) == [kind |-> "Not", e |-> e]
BinExpr(k, l, r) == [kind |-> k, l |-> l, r |-> r]
AssignStmt(n, e) == [kind |-> "Assign", name |-> n, e |-> e]
SimpleStmt(k) == [kind |-> k]
ArgStmt(k, e) == [kind |-> k, e |-> e]
BlockStmt(ss) == [kind |-> "Block", stmts |-> ss]
WhileStmt(c, b) == [kind |-> "While", cond |-> c, body |-> b]
IfStmt(c, b, e) == [kind |-> "If", cond |-> c, body |-> b, elsePart |-> e]

ArithKind(op) ==
  CASE op = "PLUS" -> "Add" [] op = "MINUS" -> "Sub"
    [] op = "MULT" -> "Mul" [] OTHER -> "Div"

CmpKind(op) ==
  CASE op = "EQ" -> "e_q" [] op = "NE" -> "n_e" [] op = "LT" -> "l_t"
    [] op = "GT" -> "g_t" [] op = "GE" -> "g_e" [] OTHER -> "l_e"

----------------------------------------------------------------------------
(* Pending steps of the call stack.                                        *)

Fr(pc) == [pc |-> pc, tok |-> "", name |-> "", e |-> Null, list |-> <<>>]
FrTok(pc, t) == [Fr(pc) EXCEPT !.tok = t]
FrNode(pc, e) == [Fr(pc) EXCEPT !.e = e]
Call(t) == FrTok("match", t)

Running == stack # <<>>
Top == Head(stack)
Rest == Tail(stack)
At(pc) == Running /\ Top.pc = pc

NoError == [line |-> 0, what |-> "", found |-> "", expected |-> ""]
What(m) == [what |-> m, found |-> "", expected |-> ""]
Mismatch(found, expected) ==
  [what |-> "Unexpected token", found |-> tokenToString(found),
   expected |-> tokenToString(expected)]
NoExc == What("")

Done == ~Running
Failed == Done /\ error # NoError
Accepted == Done /\ error = NoError

Throw(w) ==
  /\ exc' = w
  /\ stack' = <<Fr("parse_catch")>>
  /\ vals' = <<>>
  /\ UNCHANGED <<lookahead_, attribute_, lineno_, AST_, scanner_, scanned, error>>

Goto(frames, vs) ==
  /\ stack' = frames \o Rest
  /\ vals' = vs
  /\ UNCHANGED <<lookahead_, attribute_, lineno_, AST_, scanner_, scanned, exc, error>>

Pop2(vs) == SubSeq(vs, 3, Len(vs))

----------------------------------------------------------------------------
(* The Scanner: a lazy source of tokens.  A fixed program is delivered     *)
(* token by token; a family delivers any token of its alphabet until the   *)
(* stream reaches its bound, where it ends with EOT.  What nextToken       *)
(* returns after it has returned EOT is undefined: it may be any token.    *)

Alphabet(family) ==
  CASE family = "arith" ->
         {Kw("FORWARD"), Real(2), Id("x"), Kw("PLUS"), Kw("MINUS"), Kw("MULT"),
          Kw("DIV"), Kw("LPAREN"), Kw("RPAREN"), Kw("EOT")}
    [] family = "bool" ->
         {Kw("WHILE"), Id("x"), Kw("LT"), Kw("LPAREN"), Kw("RPAREN"), Kw("OR"),
          Kw("AND"), Kw("NOT"), Kw("DO"), Kw("HOME"), Kw("OD"), Kw("EOT")}
    [] family = "ctrl" ->
         {Kw("IF"), Id("x"), Kw("EQ"), Kw("THEN"), Kw("ELSIF"), Kw("ELSE"),
          Kw("FI"), Kw("PENUP"), Kw("EOT")}
    [] OTHER -> {}

Limit(family) ==
  CASE family = "arith" -> MaxArith
    [] family = "bool" -> MaxBool
    [] family = "ctrl" -> MaxCtrl
    [] OTHER -> 0

PastEnd == {Kw("EOT"), Id("x")}

\* Fixed programs: the examples of the specification and the cases of the claims.
ProgHome == <<Kw("HOME"), Kw("EOT")>>
ProgIf1 ==
  <<Kw("IF"), Real(1), Kw("THEN"), Kw("FORWARD"), Real(10), Kw("ELSE"),
    Kw("FORWARD"), Real(20), Kw("FI"), Kw("EOT")>>
ProgIf0 ==
  <<Kw("IF"), Real(0), Kw("THEN"), Kw("FORWARD"), Real(10), Kw("ELSE"),
    Kw("FORWARD"), Real(20), Kw("FI"), Kw("EOT")>>
ProgForwardAssign == <<Kw("FORWARD"), Kw("ASSIGN"), Real(5), Kw("EOT")>>
ProgAssign == <<Id("x"), Kw("ASSIGN"), Real(5), Kw("LEFT"), Id("x"), Kw("EOT")>>
ProgWhile ==
  <<Kw("WHILE"), Id("x"), Kw("LT"), Real(3), Kw("DO"), Id("x"), Kw("ASSIGN"),
    Id("x"), Kw("PLUS"), Real(1), Kw("OD"), Kw("EOT")>>
ProgAnd ==
  <<Kw("WHILE"), Id("x"), Kw("LT"), Real(2), Kw("AND"), Id("y"), Kw("GT"), Real(3),
    Kw("DO"), Kw("HOME"), Kw("OD"), Kw("EOT")>>
ProgParenCmp ==
  <<Kw("WHILE"), Kw("LPAREN"), Id("x"), Kw("PLUS"), Real(1), Kw("RPAREN"), Kw("LT"),
    Real(3), Kw("DO"), Kw("HOME"), Kw("OD"), Kw("EOT")>>
ProgDoubleParen ==
  <<Kw("WHILE"), Kw("LPAREN"), Kw("LPAREN"), Id("x"), Kw("PLUS"), Real(1),
    Kw("RPAREN"), Kw("LT"), Real(3), Kw("RPAREN"), Kw("DO"), Kw("HOME"), Kw("OD"),
    Kw("EOT")>>
ProgPlainCmp ==
  <<Kw("WHILE"), Id("x"), Kw("PLUS"), Real(1), Kw("LT"), Real(3), Kw("DO"),
    Kw("HOME"), Kw("OD"), Kw("EOT")>>
ProgParenWhole ==
  <<Kw("WHILE"), Kw("LPAREN"), Id("x"), Kw("PLUS"), Real(1), Kw("LT"), Real(3),
    Kw("RPAREN"), Kw("DO"), Kw("HOME"), Kw("OD"), Kw("EOT")>>
ProgPrecedence ==
  <<Kw("FORWARD"), Real(2), Kw("PLUS"), Real(3), Kw("MULT"), Real(4), Kw("EOT")>>
ProgLeftAssoc ==
  <<Kw("FORWARD"), Real(10), Kw("MINUS"), Real(3), Kw("MINUS"), Real(2), Kw("EOT")>>
ProgParens ==
  <<Kw("FORWARD"), Kw("LPAREN"), Real(2), Kw("PLUS"), Real(3), Kw("RPAREN"),
    Kw("MULT"), Real(4), Kw("EOT")>>
ProgUnaryMinus ==
  <<Kw("FORWARD"), Kw("MINUS"), Real(2), Kw("PLUS"), Real(3), Kw("EOT")>>
ProgElsifElse ==
  <<Kw("IF"), Id("x"), Kw("EQ"), Real(1), Kw("THEN"), Kw("PENUP"),
    Kw("ELSIF"), Id("x"), Kw("EQ"), Real(2), Kw("THEN"), Kw("PENDOWN"),
    Kw("ELSE"), Kw("PUSHSTATE"), Kw("RIGHT"), Real(90), Kw("POPSTATE"), Kw("FI"),
    Kw("EOT")>>

FixedPrograms ==
  {ProgHome, ProgIf1, ProgIf0, ProgForwardAssign, ProgAssign, ProgWhile, ProgAnd,
   ProgParenCmp, ProgDoubleParen, ProgPlainCmp, ProgParenWhole, ProgPrecedence,
   ProgLeftAssoc, ProgParens, ProgUnaryMinus, ProgElsifElse}

\* How the Scanner treats the attribute and the line number: it writes the
\* attribute for IDENT and REAL only, or rewrites it on every token; the program
\* is on one line, or has `layout` tokens on each line.
Plain == [rewrites |-> FALSE, layout |-> 0]
Modes == {Plain, [rewrites |-> TRUE, layout |-> MaxLayout]}

Config(fam, p, m) ==
  [family |-> fam, input |-> p, rewrites |-> m.rewrites, layout |-> m.layout]

Configs ==
  {Config(fam, <<>>, Plain) : fam \in {"arith", "bool"}}
  \cup {Config("ctrl", <<>>, m) : m \in Modes}
  \cup {Config("fixed", p, m) : p \in FixedPrograms, m \in Modes}

sawEOT == \E i \in 1..Len(scanned) : scanned[i].tok = "EOT"

LineOf(k) == IF scanner_.layout = 0 THEN 1 ELSE 1 + ((k - 1) \div scanner_.layout)

Offers ==
  LET k == Len(scanned) + 1 IN
  IF k <= Len(scanner_.input) THEN {scanner_.input[k]}
  ELSE IF sawEOT THEN PastEnd
  ELSE IF k >= Limit(scanner_.family) THEN {Kw("EOT")}
  ELSE Alphabet(scanner_.family)

Written(t) ==
  IF scanner_.rewrites
    THEN [s |-> t.s, f |-> t.f]
    ELSE [s |-> IF t.tok = "IDENT" THEN t.s ELSE attribute_.s,
          f |-> IF t.tok = "REAL" THEN t.f ELSE attribute_.f]

nextToken(t) ==
  /\ scanned' = Append(scanned, [tok |-> t.tok, s |-> t.s, f |-> t.f,
                                 line |-> LineOf(Len(scanned) + 1)])
  /\ lookahead_' = t.tok
  /\ attribute_' = Written(t)
  /\ lineno_' = LineOf(Len(scanned) + 1)

----------------------------------------------------------------------------
(* The parser.                                                             *)

Init ==
  /\ scanner_ \in Configs
  /\ scanned = <<>>
  /\ lookahead_ = "NONE"
  /\ attribute_ = [s |-> "", f |-> 0]
  /\ lineno_ = 0
  /\ AST_ = <<>>
  /\ stack = <<Fr("parse")>>
  /\ vals = <<>>
  /\ exc = NoExc
  /\ error = NoError

\* match, advancing before it compares.
match_advancing ==
  /\ At("match")
  /\ \E t \in Offers : nextToken(t)
  /\ IF Top.tok # lookahead_
       THEN /\ exc' = Mismatch(lookahead_, Top.tok)
            /\ stack' = <<Fr("parse_catch")>>
            /\ vals' = <<>>
            /\ UNCHANGED <<AST_, scanner_, error>>
       ELSE /\ stack' = Rest
            /\ UNCHANGED <<AST_, scanner_, vals, exc, error>>

\* match(tok): the mismatch throws before anything is read; otherwise one
\* nextToken call replaces lookahead_, attribute_ and lineno_.
match ==
  /\ At("match")
  /\ IF Top.tok # lookahead_
       THEN Throw(Mismatch(lookahead_, Top.tok))
       ELSE /\ \E t \in Offers : nextToken(t)
            /\ stack' = Rest
            /\ UNCHANGED <<AST_, scanner_, vals, exc, error>>

\* parse(): the priming nextToken call and the call of prog(); its return;
\* its catch, which puts lineno_ in front of the message.
parse ==
  \/ /\ At("parse")
     /\ \E t \in Offers : nextToken(t)
     /\ stack' = <<Fr("prog"), Fr("parse_end")>>
     /\ UNCHANGED <<AST_, scanner_, vals, exc, error>>
  \/ /\ At("parse_end")
     /\ stack' = <<>>
     /\ UNCHANGED <<lookahead_, attribute_, lineno_, AST_, scanner_, scanned,
                    vals, exc, error>>
  \/ /\ At("parse_catch")
     /\ error' = [line |-> lineno_, what |-> exc.what, found |-> exc.found,
                  expected |-> exc.expected]
     /\ stack' = <<>>
     /\ UNCHANGED <<lookahead_, attribute_, lineno_, AST_, scanner_, scanned,
                    vals, exc>>

\* prog(): stmt_seq(); match(EOT).
prog ==
  /\ At("prog")
  /\ Goto(<<Fr("stmt_seq"), Call("EOT")>>, vals)

\* stmt_seq(): the loop test, and (tok = "push") the push_back of the block
\* that has returned, followed by the loop test.
stmt_seq ==
  /\ At("stmt_seq")
  /\ LET pushed == IF Top.tok = "" THEN AST_ ELSE Append(AST_, Head(vals))
         vs == IF Top.tok = "" THEN vals ELSE Tail(vals)
     IN /\ AST_' = pushed
        /\ vals' = vs
        /\ stack' = IF lookahead_ # "EOT"
                      THEN <<Fr("block"), FrTok("stmt_seq", "push")>> \o Rest
                      ELSE Rest
        /\ UNCHANGED <<lookahead_, attribute_, lineno_, scanner_, scanned, exc, error>>

\* stmt(): an IDENT, WHILE or IF is matched before assign, while_stmt or
\* if_stmt is called.
stmt ==
  /\ At("stmt")
  /\ Goto(CASE lookahead_ = "IDENT" -> <<Call("IDENT"), Fr("assign")>>
            [] lookahead_ = "WHILE" -> <<Call("WHILE"), Fr("while_stmt")>>
            [] lookahead_ = "IF" -> <<Call("IF"), Fr("if_stmt")>>
            [] OTHER -> <<Fr("action")>>,
          vals)

\* assign(): attribute_.s is read on entry, after stmt() has matched the IDENT.
assign ==
  /\ Running
  /\ Top.pc \in {"assign", "assign_new"}
  /\ IF Top.pc = "assign"
       THEN Goto(<<Call("ASSIGN"), Fr("expr"),
                   [Fr("assign_new") EXCEPT !.name = attribute_.s]>>, vals)
       ELSE Goto(<<>>, <<AssignStmt(Top.name, Head(vals))>> \o Tail(vals))

\* block(): do { stmtTree.push_back(stmt()); } while (lookahead_ starts a statement).
block ==
  /\ Running
  /\ Top.pc \in {"block", "block_loop"}
  /\ IF Top.pc = "block"
       THEN Goto(<<Fr("stmt"), Fr("block_loop")>>, vals)
       ELSE LET stmtTree == Append(Top.list, Head(vals)) IN
            IF lookahead_ \in BlockFirst
              THEN Goto(<<Fr("stmt"), [Fr("block_loop") EXCEPT !.list = stmtTree]>>,
                        Tail(vals))
              ELSE Goto(<<>>, <<BlockStmt(stmtTree)>> \o Tail(vals))

\* while_stmt(): _bool(); match(DO); block(); match(OD); new WhileStmt.
while_stmt ==
  /\ Running
  /\ Top.pc \in {"while_stmt", "while_new"}
  /\ IF Top.pc = "while_stmt"
       THEN Goto(<<Fr("_bool"), Call("DO"), Fr("block"), Call("OD"),
                   Fr("while_new")>>, vals)
       ELSE Goto(<<>>, <<WhileStmt(vals[2], vals[1])>> \o Pop2(vals))

\* else_part, returning an empty block for a bare `fi`.
else_part_empty_block ==
  /\ Running
  /\ Top.pc \in {"else_part", "else_if", "else_null"}
  /\ CASE Top.pc = "else_if" ->
            Goto(<<>>, <<IfStmt(vals[3], vals[2], vals[1])>> \o SubSeq(vals, 4, Len(vals)))
       [] Top.pc = "else_null" -> Goto(<<>>, <<BlockStmt(<<>>)>> \o vals)
       [] OTHER ->
            CASE lookahead_ = "ELSIF" ->
                   Goto(<<Call("ELSIF"), Fr("_bool"), Call("THEN"), Fr("block"),
                          Fr("else_part"), Fr("else_if")>>, vals)
              [] lookahead_ = "ELSE" ->
                   Goto(<<Call("ELSE"), Fr("block"), Call("FI")>>, vals)
              [] lookahead_ = "FI" ->
                   Goto(<<Call("FI"), Fr("else_null")>>, vals)
              [] OTHER -> Throw(What("Expecting turtle else_part statement!"))

\* else_part(): elsif ... else_part() -> IfStmt; else block fi -> the block;
\* fi -> nullptr; anything else throws.
else_part ==
  /\ Running
  /\ Top.pc \in {"else_part", "else_if", "else_null"}
  /\ CASE Top.pc = "else_if" ->
            Goto(<<>>, <<IfStmt(vals[3], vals[2], vals[1])>> \o SubSeq(vals, 4, Len(vals)))
       [] Top.pc = "else_null" -> Goto(<<>>, <<Null>> \o vals)
       [] OTHER ->
            CASE lookahead_ = "ELSIF" ->
                   Goto(<<Call("ELSIF"), Fr("_bool"), Call("THEN"), Fr("block"),
                          Fr("else_part"), Fr("else_if")>>, vals)
              [] lookahead_ = "ELSE" ->
                   Goto(<<Call("ELSE"), Fr("block"), Call("FI")>>, vals)
              [] lookahead_ = "FI" ->
                   Goto(<<Call("FI"), Fr("else_null")>>, vals)
              [] OTHER -> Throw(What("Expecting turtle else_part statement!"))

\* if_stmt(): _bool(); match(THEN); block(); else_part(); new IfStmt.
if_stmt ==
  /\ Running
  /\ Top.pc \in {"if_stmt", "if_new"}
  /\ IF Top.pc = "if_stmt"
       THEN Goto(<<Fr("_bool"), Call("THEN"), Fr("block"), Fr("else_part"),
                   Fr("if_new")>>, vals)
       ELSE Goto(<<>>, <<IfStmt(vals[3], vals[2], vals[1])>> \o SubSeq(vals, 4, Len(vals)))

StmtKind(t) ==
  CASE t = "HOME" -> "Home" [] t = "PENUP" -> "PenUp" [] t = "PENDOWN" -> "PenDown"
    [] t = "FORWARD" -> "Forward" [] t = "LEFT" -> "Left" [] t = "RIGHT" -> "Right"
    [] t = "PUSHSTATE" -> "PushState" [] OTHER -> "PopState"

\* action(): the keyword is matched, then the argument (if any) is parsed and
\* the node is built; any other lookahead throws.
action ==
  /\ Running
  /\ Top.pc \in {"action", "action_new", "action_arg"}
  /\ CASE Top.pc = "action_new" -> Goto(<<>>, <<SimpleStmt(Top.name)>> \o vals)
       [] Top.pc = "action_arg" ->
            Goto(<<>>, <<ArgStmt(Top.name, Head(vals))>> \o Tail(vals))
       [] OTHER ->
            CASE lookahead_ \in {"HOME", "PENUP", "PENDOWN", "PUSHSTATE", "POPSTATE"} ->
                   Goto(<<Call(lookahead_),
                          [Fr("action_new") EXCEPT !.name = StmtKind(lookahead_)]>>, vals)
              [] lookahead_ \in {"FORWARD", "LEFT", "RIGHT"} ->
                   Goto(<<Call(lookahead_), Fr("expr"),
                          [Fr("action_arg") EXCEPT !.name = StmtKind(lookahead_)]>>, vals)
              [] OTHER -> Throw(What("Expecting turtle action statement!"))

\* A loop `e = first(); while (lookahead_ in ops) { match; t = next(); e = new Op(e, t); }`:
\* the step after an operand builds the pending node, then tests the loop condition.
Built(kind) ==
  IF Top.tok = "" THEN vals ELSE <<BinExpr(kind, vals[2], vals[1])>> \o Pop2(vals)

\* expr(): term() { (PLUS|MINUS) term() }.
expr ==
  /\ Running
  /\ Top.pc \in {"expr", "expr_loop"}
  /\ IF Top.pc = "expr"
       THEN Goto(<<Fr("term"), Fr("expr_loop")>>, vals)
       ELSE IF lookahead_ \in {"PLUS", "MINUS"}
              THEN Goto(<<Call(lookahead_), Fr("term"), FrTok("expr_loop", lookahead_)>>,
                        Built(ArithKind(Top.tok)))
              ELSE Goto(<<>>, Built(ArithKind(Top.tok)))

\* term, taking + and - in its own loop.
term_flat ==
  /\ Running
  /\ Top.pc \in {"term", "term_loop"}
  /\ IF Top.pc = "term"
       THEN Goto(<<Fr("factor"), Fr("term_loop")>>, vals)
       ELSE IF lookahead_ \in {"MULT", "DIV", "PLUS", "MINUS"}
              THEN Goto(<<Call(lookahead_), Fr("factor"), FrTok("term_loop", lookahead_)>>,
                        Built(ArithKind(Top.tok)))
              ELSE Goto(<<>>, Built(ArithKind(Top.tok)))

\* term(): factor() { (MULT|DIV) factor() }.
term ==
  /\ Running
  /\ Top.pc \in {"term", "term_loop"}
  /\ IF Top.pc = "term"
       THEN Goto(<<Fr("factor"), Fr("term_loop")>>, vals)
       ELSE IF lookahead_ \in {"MULT", "DIV"}
              THEN Goto(<<Call(lookahead_), Fr("factor"), FrTok("term_loop", lookahead_)>>,
                        Built(ArithKind(Top.tok)))
              ELSE Goto(<<>>, Built(ArithKind(Top.tok)))

\* factor, requiring a literal where no alternative applies.
factor_expecting_real ==
  /\ Running
  /\ Top.pc \in {"factor", "factor_neg", "factor_new"}
  /\ CASE Top.pc = "factor_neg" -> Goto(<<>>, <<NegExpr(Head(vals))>> \o Tail(vals))
       [] Top.pc = "factor_new" -> Goto(<<>>, <<Top.e>> \o vals)
       [] OTHER ->
            CASE lookahead_ = "PLUS" -> Goto(<<Call("PLUS"), Fr("factor")>>, vals)
              [] lookahead_ = "MINUS" ->
                   Goto(<<Call("MINUS"), Fr("factor"), Fr("factor_neg")>>, vals)
              [] lookahead_ = "LPAREN" ->
                   Goto(<<Call("LPAREN"), Fr("expr"), Call("RPAREN")>>, vals)
              [] lookahead_ = "IDENT" ->
                   Goto(<<Call("IDENT"), FrNode("factor_new", VarExpr(attribute_.s))>>, vals)
              [] lookahead_ = "REAL" ->
                   Goto(<<Call("REAL"), FrNode("factor_new", ConstExpr(attribute_.f))>>, vals)
              [] OTHER -> Throw(Mismatch(lookahead_, "REAL"))

\* factor(): + factor | - factor | ( expr ) | IDENT | REAL; name and value are
\* read from attribute_ before the token is matched.
factor ==
  /\ Running
  /\ Top.pc \in {"factor", "factor_neg", "factor_new"}
  /\ CASE Top.pc = "factor_neg" -> Goto(<<>>, <<NegExpr(Head(vals))>> \o Tail(vals))
       [] Top.pc = "factor_new" -> Goto(<<>>, <<Top.e>> \o vals)
       [] OTHER ->
            CASE lookahead_ = "PLUS" -> Goto(<<Call("PLUS"), Fr("factor")>>, vals)
              [] lookahead_ = "MINUS" ->
                   Goto(<<Call("MINUS"), Fr("factor"), Fr("factor_neg")>>, vals)
              [] lookahead_ = "LPAREN" ->
                   Goto(<<Call("LPAREN"), Fr("expr"), Call("RPAREN")>>, vals)
              [] lookahead_ = "IDENT" ->
                   Goto(<<Call("IDENT"), FrNode("factor_new", VarExpr(attribute_.s))>>, vals)
              [] lookahead_ = "REAL" ->
                   Goto(<<Call("REAL"), FrNode("factor_new", ConstExpr(attribute_.f))>>, vals)
              [] OTHER -> Throw(What("Expecting factor!"))

\* _bool(): bool_term() { or bool_term() }.
_bool ==
  /\ Running
  /\ Top.pc \in {"_bool", "_bool_loop"}
  /\ IF Top.pc = "_bool"
       THEN Goto(<<Fr("bool_term"), Fr("_bool_loop")>>, vals)
       ELSE IF lookahead_ = "OR"
              THEN Goto(<<Call("OR"), Fr("bool_term"), FrTok("_bool_loop", "OR")>>,
                        Built("OrBool"))
              ELSE Goto(<<>>, Built("OrBool"))

\* bool_term, whose loop on `and` neither consumes nor parses anything.
bool_term_spin ==
  /\ Running
  /\ Top.pc \in {"bool_term", "bool_term_loop"}
  /\ IF Top.pc = "bool_term"
       THEN Goto(<<Fr("bool_factor"), Fr("bool_term_loop")>>, vals)
       ELSE IF lookahead_ = "AND"
              THEN UNCHANGED vars
              ELSE Goto(<<>>, Built("AndBool"))

\* bool_term(): the loop tests lookahead_ == AND and calls bool_factor()
\* without matching the AND.
bool_term ==
  /\ Running
  /\ Top.pc \in {"bool_term", "bool_term_loop"}
  /\ IF Top.pc = "bool_term"
       THEN Goto(<<Fr("bool_factor"), Fr("bool_term_loop")>>, vals)
       ELSE IF lookahead_ = "AND"
              THEN Goto(<<Fr("bool_factor"), FrTok("bool_term_loop", "AND")>>,
                        Built("AndBool"))
              ELSE Goto(<<>>, Built("AndBool"))

\* bool_factor, leaving `(` to the comparison's arithmetic operand.
bool_factor_arith ==
  /\ Running
  /\ Top.pc \in {"bool_factor", "bool_not"}
  /\ IF Top.pc = "bool_not"
       THEN Goto(<<>>, <<NotExpr(Head(vals))>> \o Tail(vals))
       ELSE CASE lookahead_ = "NOT" ->
                   Goto(<<Call("NOT"), Fr("bool_factor"), Fr("bool_not")>>, vals)
              [] OTHER -> Goto(<<Fr("cmp")>>, vals)

\* bool_factor(): not bool_factor | ( _bool ) | cmp.
bool_factor ==
  /\ Running
  /\ Top.pc \in {"bool_factor", "bool_not"}
  /\ IF Top.pc = "bool_not"
       THEN Goto(<<>>, <<NotExpr(Head(vals))>> \o Tail(vals))
       ELSE CASE lookahead_ = "NOT" ->
                   Goto(<<Call("NOT"), Fr("bool_factor"), Fr("bool_not")>>, vals)
              [] lookahead_ = "LPAREN" ->
                   Goto(<<Call("LPAREN"), Fr("_bool"), Call("RPAREN")>>, vals)
              [] OTHER -> Goto(<<Fr("cmp")>>, vals)

\* cmp, taking a bare expression as a condition.
cmp_bare ==
  /\ Running
  /\ Top.pc \in {"cmp", "cmp_op", "cmp_new"}
  /\ CASE Top.pc = "cmp" -> Goto(<<Fr("expr"), Fr("cmp_op")>>, vals)
       [] Top.pc = "cmp_new" ->
            Goto(<<>>, <<BinExpr(CmpKind(Top.tok), vals[2], vals[1])>> \o Pop2(vals))
       [] OTHER ->
            IF lookahead_ \in CmpOps
              THEN Goto(<<Call(lookahead_), Fr("expr"), FrTok("cmp_new", lookahead_)>>, vals)
              ELSE Goto(<<>>, vals)

\* cmp(): expr() op expr(); without a comparison operator it throws.
cmp ==
  /\ Running
  /\ Top.pc \in {"cmp", "cmp_op", "cmp_new"}
  /\ CASE Top.pc = "cmp" -> Goto(<<Fr("expr"), Fr("cmp_op")>>, vals)
       [] Top.pc = "cmp_new" ->
            Goto(<<>>, <<BinExpr(CmpKind(Top.tok), vals[2], vals[1])>> \o Pop2(vals))
       [] OTHER ->
            IF lookahead_ \in CmpOps
              THEN Goto(<<Call(lookahead_), Fr("expr"), FrTok("cmp_new", lookahead_)>>, vals)
              ELSE Throw(What("Error cmp()."))

Next ==
  \/ parse \/ match \/ prog \/ stmt_seq \/ stmt \/ assign \/ block \/ while_stmt
  \/ else_part \/ if_stmt \/ action \/ expr \/ term \/ factor \/ _bool
  \/ bool_term \/ bool_factor \/ cmp

Spec == Init /\ [][Next]_vars

\* The parser runs on: a pending step is taken.
LiveSpec == Init /\ [][Next]_vars /\ WF_vars(Next)

----------------------------------------------------------------------------
(* Evaluation and execution of the tree (sections 3, 4.5 and 6 of the      *)
(* specification), over integers.                                          *)

Env == [n \in {"x", "y"} |-> 3]

Quot(a, b) == IF b = 0 THEN 0 ELSE a \div b

Truth(b) == IF b THEN 1 ELSE 0

RECURSIVE Eval(_)
Eval(n) ==
  CASE n.kind = "Const" -> n.val
    [] n.kind = "Var" -> Env[n.name]
    [] n.kind = "Neg" -> 0 - Eval(n.e)
    [] n.kind = "Not" -> Eval(n.e)
    [] n.kind = "Add" -> Eval(n.l) + Eval(n.r)
    [] n.kind = "Sub" -> Eval(n.l) - Eval(n.r)
    [] n.kind = "Mul" -> Eval(n.l) * Eval(n.r)
    [] n.kind = "Div" -> Quot(Eval(n.l), Eval(n.r))
    [] n.kind = "AndBool" -> Truth(Eval(n.l) # 0 /\ Eval(n.r) # 0)
    [] n.kind = "OrBool" -> Truth(Eval(n.l) # 0 \/ Eval(n.r) # 0)
    [] n.kind = "e_q" -> Truth(Eval(n.l) = Eval(n.r))
    [] n.kind = "n_e" -> Truth(Eval(n.l) # Eval(n.r))
    [] n.kind = "l_t" -> Truth(Eval(n.l) < Eval(n.r))
    [] n.kind = "g_t" -> Truth(Eval(n.l) > Eval(n.r))
    [] n.kind = "g_e" -> Truth(Eval(n.l) >= Eval(n.r))
    [] OTHER -> Truth(Eval(n.l) <= Eval(n.r))

\* The protocol lines of a statement that holds no assignment and no loop.
RECURSIVE Exec(_)
RECURSIVE ExecSeq(_)
ExecSeq(ss) == IF ss = <<>> THEN <<>> ELSE Exec(Head(ss)) \o ExecSeq(Tail(ss))
Exec(n) ==
  CASE n.kind = "Home" -> <<<<"H">>>>
    [] n.kind = "PenUp" -> <<<<"U">>>>
    [] n.kind = "PenDown" -> <<<<"D">>>>
    [] n.kind = "PushState" -> <<<<"[">>>>
    [] n.kind = "PopState" -> <<<<"]">>>>
    [] n.kind = "Forward" -> <<<<"M", Eval(n.e)>>>>
    [] n.kind = "Left" -> <<<<"R", Eval(n.e)>>>>
    [] n.kind = "Right" -> <<<<"R", 0 - Eval(n.e)>>>>
    [] n.kind = "Block" -> ExecSeq(n.stmts)
    [] n.kind = "If" -> IF Eval(n.cond) # 0 THEN Exec(n.body)
                        ELSE IF n.elsePart = Null THEN <<>> ELSE Exec(n.elsePart)
    [] OTHER -> <<>>

----------------------------------------------------------------------------
(* The program text seen so far.                                           *)

Tok(i) == scanned[i].tok
EotAt == CHOOSE i \in 1..Len(scanned) :
           Tok(i) = "EOT" /\ \A j \in 1..(i - 1) : Tok(j) # "EOT"
Program == SubSeq(scanned, 1, EotAt)
Toks(ts) == [i \in 1..Len(ts) |-> ts[i].tok]
Last(q) == q[Len(q)]
Max(S) == CHOOSE m \in S : \A n \in S : n <= m
Min(S) == CHOOSE m \in S : \A n \in S : m <= n

Opens(ts, i) == Cardinality({j \in 1..(i - 1) : ts[j].tok = "LPAREN"})
Closes(ts, i) == Cardinality({j \in 1..(i - 1) : ts[j].tok = "RPAREN"})
Depth(ts, i) == Opens(ts, i) - Closes(ts, i)

----------------------------------------------------------------------------
(* C1: bool_term accepts bool_factor (AND bool_factor)* and builds the     *)
(* left-associative And chain: a condition made of comparisons separated   *)
(* by `and` is parsed without error, and `x < 2 and y > 3` yields          *)
(* AndBool(l_t(x, 2), g_t(y, 3)).                                          *)

Operand(i) == Tok(i) \in {"IDENT", "REAL"}
Comparison(i) == Operand(i) /\ Tok(i + 1) \in CmpOps /\ Operand(i + 2)

\* The text so far is `while cmp (and cmp)* and`.
AndChainSoFar ==
  /\ Len(scanned) >= 5
  /\ (Len(scanned) - 1) % 4 = 0
  /\ Tok(1) = "WHILE"
  /\ \A k \in 1..((Len(scanned) - 1) \div 4) :
       Comparison(4 * k - 2) /\ Tok(4 * k + 1) = "AND"

\* C1: a text that is so far an and-chain of comparisons has not failed, and
\* `while x < 2 and y > 3 do home od` yields the While over the And node.
C1_AndChain ==
  /\ AndChainSoFar => ~Failed
  /\ (Done /\ scanner_.input = ProgAnd) =>
       /\ Accepted
       /\ AST_ = <<BlockStmt(<<WhileStmt(
                     BinExpr("AndBool",
                             BinExpr("l_t", VarExpr("x"), ConstExpr(2)),
                             BinExpr("g_t", VarExpr("y"), ConstExpr(3))),
                     BlockStmt(<<SimpleStmt("Home")>>))>>)>>

----------------------------------------------------------------------------
(* C2 (as stated): `if 1 then forward 10 else forward 20 fi` parses and    *)
(* executes to exactly the line M 10, and with `if 0` to exactly M 20.     *)

C2_LiteralCondition ==
  /\ (Done /\ scanner_.input = ProgIf1) =>
       (Accepted /\ ExecSeq(AST_) = <<<<"M", 10>>>>)
  /\ (Done /\ scanner_.input = ProgIf0) =>
       (Accepted /\ ExecSeq(AST_) = <<<<"M", 20>>>>)

(* C2 (amended): an if-statement whose condition is a bare numeric literal *)
(* is rejected: for both programs parse() fails with the error of cmp,     *)
(* raised when THEN follows the literal, and no statement is produced, so  *)
(* no protocol line is emitted.                                            *)

C2_LiteralConditionRejected ==
  (Done /\ scanner_.input \in {ProgIf1, ProgIf0}) =>
    /\ Failed
    /\ error.what = "Error cmp()."
    /\ lookahead_ = "THEN"
    /\ AST_ = <<>>

C2_Witness ==
  Failed /\ scanner_.input = ProgIf0 /\ error.what = "Error cmp()."

----------------------------------------------------------------------------
(* C3 (as stated): `forward := 5` on line 1 fails with an error that       *)
(* references line 1 and names the found and the expected token.           *)

C3_KeywordTarget ==
  (Done /\ scanner_.input = ProgForwardAssign /\ scanner_.layout = 0) =>
    /\ Failed
    /\ error.line = 1
    /\ error.found # ""
    /\ error.expected # ""

(* C3 (amended): `forward := 5` on line 1 fails with an error that         *)
(* references line 1; the error is factor's "Expecting factor!", which     *)
(* names neither the found nor an expected token.                          *)

C3_KeywordTargetFactorError ==
  (Done /\ scanner_.input = ProgForwardAssign /\ scanner_.layout = 0) =>
    /\ Failed
    /\ error.line = 1
    /\ error.what = "Expecting factor!"
    /\ error.found = ""
    /\ error.expected = ""

C3_Witness ==
  /\ Failed
  /\ scanner_.input = ProgForwardAssign
  /\ scanner_.layout = 0
  /\ Toks(scanned) = <<"FORWARD", "ASSIGN">>

----------------------------------------------------------------------------
(* C4: nextToken is never called again after it has returned EOT: the      *)
(* number of calls made after an EOT was returned is zero in every state.  *)

CallsAfterEOT == IF sawEOT THEN Len(scanned) - EotAt ELSE 0

\* C4: no nextToken call is made after one has returned EOT.
C4_NoCallAfterEOT == CallsAfterEOT = 0

----------------------------------------------------------------------------
(* C5: the name stored in an Assign node is the attribute of its own IDENT *)
(* token, for every scanner: the names of the Assign nodes of an accepted  *)
(* program are, in order, the names of the IDENT tokens followed by `:=`.  *)

RECURSIVE AssignNames(_)
RECURSIVE AssignNamesSeq(_)
AssignNamesSeq(ss) ==
  IF ss = <<>> THEN <<>> ELSE AssignNames(Head(ss)) \o AssignNamesSeq(Tail(ss))
AssignNames(n) ==
  CASE n.kind = "Assign" -> <<n.name>>
    [] n.kind = "Block" -> AssignNamesSeq(n.stmts)
    [] n.kind = "While" -> AssignNames(n.body)
    [] n.kind = "If" -> AssignNames(n.body) \o AssignNames(n.elsePart)
    [] OTHER -> <<>>

RECURSIVE TargetNames(_)
TargetNames(i) ==
  IF i >= EotAt THEN <<>>
  ELSE (IF Tok(i) = "IDENT" /\ Tok(i + 1) = "ASSIGN" THEN <<scanned[i].s>> ELSE <<>>)
       \o TargetNames(i + 1)

\* C5: the Assign nodes carry, in order, the names of the assigned IDENT tokens.
C5_NameOfOwnIdent == Accepted => AssignNamesSeq(AST_) = TargetNames(1)

----------------------------------------------------------------------------
(* C6: match(tok) on a mismatch raises an error carrying the found token,  *)
(* the expected token and (once parse() has decorated it) the current line *)
(* number, leaves lookahead, attribute and line number unchanged and makes *)
(* no Scanner call; on a match it makes exactly one nextToken call and the *)
(* lookahead becomes the token that call returned.                         *)

MatchStep ==
  At("match") =>
    IF Top.tok # lookahead_
      THEN /\ exc' = Mismatch(lookahead_, Top.tok)
           /\ UNCHANGED parserState
      ELSE /\ Len(scanned') = Len(scanned) + 1
           /\ SubSeq(scanned', 1, Len(scanned)) = scanned
           /\ lookahead_' = Last(scanned').tok
           /\ lineno_' = Last(scanned').line

MismatchReported ==
  (Failed /\ error.what = "Unexpected token") =>
    /\ error.found = tokenToString(Last(scanned).tok)
    /\ error.found = tokenToString(lookahead_)
    /\ error.expected # error.found
    /\ error.line = Last(scanned).line
    /\ error.line = lineno_

\* C6: every step of match keeps its contract, and a reported mismatch names
\* the token found, the token expected and the line of the token found.
C6_MatchContract == [][MatchStep /\ MismatchReported']_vars

C6_Witness ==
  /\ Failed
  /\ error.what = "Unexpected token"
  /\ error.line > 1
  /\ Len(scanned) >= 3

----------------------------------------------------------------------------
(* C7: for every accepted program made of `forward expr` statements, the   *)
(* tree of each expression is the tree of the reference grammar (products  *)
(* bind tighter than sums, equal precedence associates to the left,        *)
(* unary sign binds tighter than any binary operator, parentheses group),  *)
(* and it evaluates to the reference value: 2+3*4 = 14, 10-3-2 = 5,        *)
(* (2+3)*4 = 20, -2+3 = 1.                                                 *)

ArithToks == {"REAL", "IDENT", "PLUS", "MINUS", "MULT", "DIV", "LPAREN", "RPAREN"}

\* An operator is binary when an operand ends just before it.
Binary(ts, i) == i > 1 /\ ts[i - 1].tok \in {"REAL", "IDENT", "RPAREN"}
TopOps(ts, ops) ==
  {i \in 1..Len(ts) : ts[i].tok \in ops /\ Binary(ts, i) /\ Depth(ts, i) = 0}

Apply(op, a, b) ==
  CASE op = "PLUS" -> a + b [] op = "MINUS" -> a - b
    [] op = "MULT" -> a * b [] OTHER -> Quot(a, b)

\* The value of an expression, read off its text: the last binary + or -
\* outside parentheses splits it, else the last * or /, else a sign, a
\* parenthesis or an operand heads it.
RECURSIVE RefEval(_)
RefEval(ts) ==
  LET adds == TopOps(ts, {"PLUS", "MINUS"})
      muls == TopOps(ts, {"MULT", "DIV"})
      split(i) == Apply(ts[i].tok, RefEval(SubSeq(ts, 1, i - 1)),
                        RefEval(SubSeq(ts, i + 1, Len(ts))))
  IN IF adds # {} THEN split(Max(adds))
     ELSE IF muls # {} THEN split(Max(muls))
     ELSE CASE ts[1].tok = "MINUS" -> 0 - RefEval(Tail(ts))
            [] ts[1].tok = "PLUS" -> RefEval(Tail(ts))
            [] ts[1].tok = "LPAREN" -> RefEval(SubSeq(ts, 2, Len(ts) - 1))
            [] ts[1].tok = "REAL" -> ts[1].f
            [] OTHER -> Env[ts[1].s]

RECURSIVE RefTree(_)
RefTree(ts) ==
  LET adds == TopOps(ts, {"PLUS", "MINUS"})
      muls == TopOps(ts, {"MULT", "DIV"})
      split(i) == BinExpr(ArithKind(ts[i].tok), RefTree(SubSeq(ts, 1, i - 1)),
                          RefTree(SubSeq(ts, i + 1, Len(ts))))
  IN IF adds # {} THEN split(Max(adds))
     ELSE IF muls # {} THEN split(Max(muls))
     ELSE CASE ts[1].tok = "MINUS" -> NegExpr(RefTree(Tail(ts)))
            [] ts[1].tok = "PLUS" -> RefTree(Tail(ts))
            [] ts[1].tok = "LPAREN" -> RefTree(SubSeq(ts, 2, Len(ts) - 1))
            [] ts[1].tok = "REAL" -> ConstExpr(ts[1].f)
            [] OTHER -> VarExpr(ts[1].s)

ForwardOnly ==
  /\ Accepted
  /\ \A i \in 1..(EotAt - 1) : Tok(i) \in ArithToks \cup {"FORWARD"}

ForwardAt == {i \in 1..(EotAt - 1) : Tok(i) = "FORWARD"}
ArgOf(i) == SubSeq(scanned, i + 1, Min({j \in ForwardAt : j > i} \cup {EotAt}) - 1)
Forwards == IF AST_ = <<>> THEN <<>> ELSE AST_[1].stmts
NthForward(i) == Forwards[Cardinality({j \in ForwardAt : j <= i})]

\* C7: each forward argument has the reference tree and the reference value.
C7_Precedence ==
  ForwardOnly =>
    /\ Len(AST_) <= 1
    /\ Len(Forwards) = Cardinality(ForwardAt)
    /\ \A i \in ForwardAt :
         /\ NthForward(i) = ArgStmt("Forward", RefTree(ArgOf(i)))
         /\ Eval(NthForward(i).e) = RefEval(ArgOf(i))
    /\ scanner_.input = ProgPrecedence => Eval(Forwards[1].e) = 14
    /\ scanner_.input = ProgLeftAssoc => Eval(Forwards[1].e) = 5
    /\ scanner_.input = ProgParens => Eval(Forwards[1].e) = 20
    /\ scanner_.input = ProgUnaryMinus => Eval(Forwards[1].e) = 1

C7_Witness ==
  /\ Accepted
  /\ scanner_.family = "arith"
  /\ Toks(Program) = <<"FORWARD", "MINUS", "REAL", "PLUS", "IDENT", "MULT", "EOT">> \/
     Toks(Program) = <<"FORWARD", "REAL", "MINUS", "IDENT", "DIV", "REAL", "EOT">>

----------------------------------------------------------------------------
(* C8: in every accepted program, an If has no else-branch exactly when    *)
(* its chain was closed by a bare `fi`; an `elsif` yields a nested If as   *)
(* the else-branch, an `else` yields the Block parsed up to `fi`; each     *)
(* if/elsif chain consumes exactly one `fi`.  Written back as keywords     *)
(* (absent else-branch: fi; If as else-branch: elsif ...; Block as         *)
(* else-branch: else ... fi) the tree gives the keywords of the text.      *)

RECURSIVE Skel(_)
RECURSIVE SkelSeq(_)
RECURSIVE ElseSkel(_)
SkelSeq(ss) == IF ss = <<>> THEN <<>> ELSE Skel(Head(ss)) \o SkelSeq(Tail(ss))
Skel(n) ==
  CASE n.kind = "Block" -> SkelSeq(n.stmts)
    [] n.kind = "While" -> Skel(n.body)
    [] n.kind = "If" -> <<"IF">> \o Skel(n.body) \o ElseSkel(n.elsePart)
    [] OTHER -> <<>>
ElseSkel(e) ==
  CASE e.kind = "Null" -> <<"FI">>
    [] e.kind = "If" -> <<"ELSIF">> \o Skel(e.body) \o ElseSkel(e.elsePart)
    [] e.kind = "Block" -> <<"ELSE">> \o Skel(e) \o <<"FI">>
    [] OTHER -> <<"?">>

IfKeyword(t) == t.tok \in {"IF", "ELSIF", "ELSE", "FI"}

\* C8: the if-keywords written back from the tree are those of the text.
C8_ElseBranch ==
  Accepted => SkelSeq(AST_) = Toks(SelectSeq(Program, IfKeyword))

C8_Witness ==
  /\ Accepted
  /\ scanner_.family = "ctrl"
  /\ SkelSeq(AST_) = <<"IF", "ELSIF", "FI">>

----------------------------------------------------------------------------
(* C9: parse() terminates on every token stream that ends in EOT, by       *)
(* returning or by raising one error.                                      *)

C9_Terminates == <>Done

C9_Witness ==
  /\ Accepted
  /\ scanner_.family = "bool"
  /\ Len(scanned) >= MaxBool

----------------------------------------------------------------------------
(* C10 (as stated): in a boolean context `(` starts a parenthesized        *)
(* boolean expression: `(x+1) < 3` is rejected, while `x+1 < 3` and        *)
(* `((x+1) < 3)` are accepted.                                             *)

C10_ParenInCondition ==
  /\ (Done /\ scanner_.input = ProgParenCmp) => Failed
  /\ (Done /\ scanner_.input = ProgPlainCmp) => Accepted
  /\ (Done /\ scanner_.input = ProgDoubleParen) => Accepted

(* C10 (amended): in a boolean context `(` starts a parenthesized boolean  *)
(* expression, never an arithmetic operand: in an accepted program such a  *)
(* parenthesis encloses a comparison and no comparison or arithmetic       *)
(* operator follows it.  `(x+1) < 3` is rejected with the error of cmp,    *)
(* and so is `((x+1) < 3)`, whose inner `(` is again in a boolean context; *)
(* `x+1 < 3` and `(x+1 < 3)` are accepted.                                 *)

RECURSIVE BoolParen(_)
BoolParen(i) ==
  /\ i > 1
  /\ Tok(i) = "LPAREN"
  /\ \/ Tok(i - 1) \in {"WHILE", "IF", "ELSIF", "NOT", "OR"}
     \/ Tok(i - 1) = "LPAREN" /\ BoolParen(i - 1)

Closing(i) ==
  Min({j \in (i + 1)..EotAt : Tok(j) = "RPAREN" /\ Depth(Program, j + 1) = Depth(Program, i)})

\* C10 (amended): a boolean-context parenthesis of an accepted program encloses
\* a comparison and is followed by no operator; the four example programs.
C10_ParenIsBoolean ==
  /\ Accepted =>
       \A i \in 1..EotAt : BoolParen(i) =>
         /\ \E j \in (i + 1)..(Closing(i) - 1) : Tok(j) \in CmpOps
         /\ Tok(Closing(i) + 1) \notin CmpOps \cup {"PLUS", "MINUS", "MULT", "DIV"}
  /\ (Done /\ scanner_.input \in {ProgParenCmp, ProgDoubleParen}) =>
       (Failed /\ error.what = "Error cmp()." /\ lookahead_ = "RPAREN")
  /\ (Done /\ scanner_.input \in {ProgPlainCmp, ProgParenWhole}) => Accepted

C10_Witness ==
  /\ Failed
  /\ scanner_.input = ProgDoubleParen
  /\ error.what = "Error cmp()."

====
